---- MODULE Spec2Model ----
(***************************************************************************)
(* Model of the ensemble result analysis of cmf.lumped                     *)
(* (cmflumped/doctools/result.py, class BaseResult).                       *)
(*                                                                         *)
(* SpecSearch : BaseResult.calculate_threshold, one loop iteration per     *)
(*              step, for a like1 column and an n_min drawn in the initial *)
(*              state.                                                     *)
(* Spec       : one analysis session of a BaseResult object on a file      *)
(*              system of HDF5 table files: __init__, prune_results,       *)
(*              summary, timeseries_plot, dotty_plot, close, __exit__.     *)
(*                                                                         *)
(* Python floats are IEEE-754 doubles.  Every double that occurs here lies *)
(* in (-4, 4) and is a multiple of 2^-57, so a double x is the pair        *)
(* <<hi, lo>> with  x = (hi * 2^30 + lo) * 2^-57  and  0 <= lo < 2^30      *)
(* (hi is the floor quotient, so pairs order lexicographically).           *)
(***************************************************************************)
EXTENDS Integers, Sequences, FiniteSets, TLC

\* ---------------------------------------------------------------- bounds
MaxRows == 3        \* rows of a result table
MaxNMin == 3        \* largest n_min passed to calculate_threshold
MaxPrunes == 2      \* prune_results calls that move on to a new file

\* ------------------------------------------------- IEEE double arithmetic
Limb == 2^30

\* -x
DNeg(x) == IF x[2] = 0 THEN <<-x[1], 0>> ELSE <<-x[1] - 1, Limb - x[2]>>

\* x > y, x >= y on doubles
DGt(x, y) == x[1] > y[1] \/ (x[1] = y[1] /\ x[2] > y[2])
DGe(x, y) == x = y \/ DGt(x, y)

\* the unit in the last place of a magnitude with high limb mh, in units of
\* 2^-57: a double keeps 53 significant bits, a magnitude below 2^53 units
\* (mh < 2^23) is exact
RECURSIVE UlpFrom(_, _)
UlpFrom(mh, e) == IF mh >= 2^(23 + e) THEN UlpFrom(mh, e + 1) ELSE 2^e
Ulp(mh) == UlpFrom(mh, 0)

\* round a non-negative exact value to the nearest double, ties to even
RoundMag(m) ==
    LET u  == Ulp(m[1])
        q  == m[2] \div u
        r  == m[2] % u
        up == (2 * r > u) \/ (2 * r = u /\ q % 2 = 1)
        nl == (IF up THEN q + 1 ELSE q) * u
    IN  IF nl = Limb THEN <<m[1] + 1, 0>> ELSE <<m[1], nl>>

DRound(x) == IF x[1] < 0 THEN DNeg(RoundMag(DNeg(x))) ELSE RoundMag(x)

\* the double x - y: the exact difference, rounded
DSub(x, y) ==
    LET h == x[1] - y[1]
        l == x[2] - y[2]
    IN  DRound(IF l < 0 THEN <<h - 1, l + Limb>> ELSE <<h, l>>)

\* ------------------------------------------------------ double literals
D_0_7    == <<93952409, 644245088>>     \* 0.7   = 0x1.6666666666666p-1
D_0_05   == <<6710886, 429496730>>      \* 0.05  = 0x1.999999999999ap-5
D_m2     == <<-268435456, 0>>           \* -2.0
D_0_8    == <<107374182, 429496736>>    \* 0.8   = 0x1.999999999999ap-1
D_0_0    == <<0, 0>>                    \* 0.0
D_m3     == <<-402653184, 0>>           \* -3.0

\* ------------------------------------------------ calculate_threshold
\* n_min=30, the default of calculate_threshold
N_MIN_DEFAULT == 30

\* threshold = 0.7
Start == D_0_7
\* ... and threshold > -2
Floor == D_m2
\* threshold -= 0.05
Decrement(thr) == DSub(thr, D_0_05)

\* a count that stops at the first row that is not above the threshold
RECURSIVE Count_leading(_, _)
Count_leading(col, thr) ==
    IF col = <<>> \/ ~DGt(Head(col), thr) THEN 0
    ELSE 1 + Count_leading(Tail(col), thr)

\* np.sum(np.array(self.data.cols.like1[:]) > threshold)
RECURSIVE Count(_, _)
Count(col, thr) ==
    IF col = <<>> THEN 0
    ELSE (IF DGt(Head(col), thr) THEN 1 ELSE 0) + Count(Tail(col), thr)

\* a loop condition with the comparison of the count turned around
LoopCond_reversed(col, nmin, thr) == Count(col, thr) > nmin /\ DGt(thr, Floor)

\* the condition of the while loop
LoopCond(col, nmin, thr) == Count(col, thr) < nmin /\ DGt(thr, Floor)

\* the loop, run from the value thr
RECURSIVE SearchFrom(_, _, _)
SearchFrom(col, nmin, thr) ==
    IF LoopCond(col, nmin, thr) THEN SearchFrom(col, nmin, Decrement(thr))
    ELSE thr

\* calculate_threshold(n_min) on a table with the like1 column col:
\* the pair (threshold, n) it returns
calculate_threshold(col, nmin) ==
    LET t == SearchFrom(col, nmin, Start) IN <<t, Count(col, t)>>

\* the values the like1 column is drawn from: above the start value, the
\* start value, the threshold after one decrement, the floor, and a value
\* no threshold admits
Likes == {D_0_8, D_0_7, Decrement(D_0_7), D_m2, D_m3}

RECURSIVE SeqsUpTo(_, _)
SeqsUpTo(S, k) ==
    IF k = 0 THEN {<<>>}
    ELSE LET shorter == SeqsUpTo(S, k - 1)
         IN  shorter \cup {Append(s, x) : s \in {t \in shorter : Len(t) = k - 1}, x \in S}

VARIABLES
    \* calculate_threshold
    like1,      \* self.data.cols.like1[:], the primary objective column
    n_min,      \* the argument of calculate_threshold
    threshold,  \* the local threshold
    n,          \* the local n
    pc,         \* position in calculate_threshold: idle, loop, done
    \* the session
    files,            \* the directory: file name -> content of the HDF5 file
    handles,          \* every tables.File opened so far: [file, open]
    obj,              \* the BaseResult object: new, live, failed
    model_str,        \* str(model), the name of the model
    result_filename,  \* self.result_filename
    data_file,        \* self.data_file, an index into handles
    data,             \* self.data, the table node: [h, node]
    self_threshold,   \* self.threshold
    self_n,           \* self.n
    last,             \* the last call, how it ended and what it gave
    \* BaseModel.objectivefunction
    begin,              \* self.data.begin, a date as its day number
    calibration_start,  \* self.calibration_start, a year
    validation_start,   \* self.validation_start, a year
    evaluation,         \* the observed series, as runs [v, k] of k days
    simulation,         \* the simulated series, as runs [v, k] of k days
    objectives,         \* what objectivefunction returned or raised
    \* the command line
    argv,       \* sys.argv[1:]
    environ,    \* os.environ['SPOTPYRUNS'], or NoValue
    invoked,    \* the command functions called, with their arguments
    stderr,     \* what was written to sys.stderr
    status,     \* how main ended
    work,       \* what the run command made the model do
    \* gui.fluxogram.Network
    connections,  \* the connections of the project: pairs <<left, right>>
    nodes,        \* the keys of self.nodes
    graph_nodes,  \* self.graph.nodes
    graph_edges,  \* self.graph.edges
    stack,        \* the calls of add_node under way: [node, todo]
    visits,       \* how often add_node was called for each node
    npc           \* position in Network.__init__: new, adding, done

tvars == <<like1, n_min, threshold, n, pc>>
svars == <<files, handles, obj, model_str, result_filename, data_file, data,
           self_threshold, self_n, last>>
ovars == <<begin, calibration_start, validation_start, evaluation,
           simulation, objectives>>
mvars == <<argv, environ, invoked, stderr, status, work>>
gvars == <<connections, nodes, graph_nodes, graph_edges, stack, visits, npc>>
vars == <<tvars, svars, ovars, mvars, gvars>>

\* the variables of objectivefunction, of the command line and of the
\* network before anything is called
NoValue == "none"
ObjectiveIdle ==
    /\ begin = 0
    /\ calibration_start = 0
    /\ validation_start = 0
    /\ evaluation = <<>>
    /\ simulation = <<>>
    /\ objectives = [raised |-> "idle", values |-> <<>>]
MainIdle ==
    /\ argv = <<>>
    /\ environ = <<NoValue>>
    /\ invoked = <<>>
    /\ stderr = [text |-> NoValue, of |-> <<>>]
    /\ status = "idle"
    /\ work = <<>>
NetworkIdle ==
    /\ connections = {}
    /\ nodes = {}
    /\ graph_nodes = {}
    /\ graph_edges = {}
    /\ stack = <<>>
    /\ visits = <<>>
    /\ npc = "idle"

\* ------------------------------------------------------------ the session
\* file names are sequences of pieces; no piece contains ".h5" but ".h5"
MODULE_NAME == "model"                  \* model.__module__
DefaultFilename == <<MODULE_NAME, ".h5">>   \* f'{self.name}.h5'
OtherFilename == <<"runs", ".hdf5">>    \* a result_file without ".h5" in it
NoTable == ""                           \* a file without a table
Unset == <<>>                           \* an attribute not yet assigned

\* str.replace('.h5', '.pruned.h5'): every occurrence is replaced
RECURSIVE Replace(_)
Replace(fn) ==
    IF fn = <<>> THEN <<>>
    ELSE (IF Head(fn) = ".h5" THEN <<".pruned", ".h5">> ELSE <<Head(fn)>>)
         \o Replace(Tail(fn))

\* the number of ".pruned" pieces of a file name
PrunedDepth(fn) == Cardinality({i \in DOMAIN fn : fn[i] = ".pruned"})

\* rows are <<run id, like1>>; a table is [node, desc, rows]
Like1Col(rows) == [i \in DOMAIN rows |-> rows[i][2]]
NumberRows(col) == [i \in DOMAIN col |-> <<i, col[i]>>]

\* the like1 values of the session's tables: around the usual condition
\* like1>=0.0
SessionLikes == {D_0_8, D_0_0, D_m3}
ModelNames == {MODULE_NAME, "custom"}
\* the columns of the table a model writes: one par column per parameter
Description(model_name) ==
    IF model_name = MODULE_NAME THEN "like1,parA,simulation"
    ELSE "like1,parA,parB,simulation"

\* the conditions passed to prune_results; the first is the default
Conditions == {[op |-> ">=", v |-> D_0_0], [op |-> "<", v |-> D_0_0],
               [op |-> "invalid", v |-> D_0_0]}

\* a row satisfies a condition 'like1>=v' or 'like1<v'
Holds(cond, row) ==
    IF cond.op = ">=" THEN DGe(row[2], cond.v) ELSE DGt(cond.v, row[2])

\* read_where that leaves out the first row that satisfies the condition
ReadWhere_skipfirst(rows, cond) ==
    LET sel == SelectSeq(rows, LAMBDA r : Holds(cond, r))
    IN  IF sel = <<>> THEN sel ELSE Tail(sel)

\* read_where in reverse row order
ReadWhere_reversed(rows, cond) ==
    LET sel == SelectSeq(rows, LAMBDA r : Holds(cond, r))
    IN  [i \in DOMAIN sel |-> sel[Len(sel) + 1 - i]]

\* Table.read_where(condition): the rows that satisfy it, in table order
ReadWhere(rows, cond) == SelectSeq(rows, LAMBDA r : Holds(cond, r))

\* tables.open_file(filename): a new handle
OpenHandle(hs, fn) == Append(hs, [file |-> fn, open |-> TRUE])
CloseHandle(hs, h) == [hs EXCEPT ![h].open = FALSE]

\* a prune that closes the file it reads before it writes the new one
OpenWhileWriting_closed(hs, df) == CloseHandle(hs, df)

\* the handles that are open while prune_results writes the new file:
\* lines 64-68 close nothing
OpenWhileWriting(hs, df) == hs

\* tables.open_file(filename, 'w') refuses a file this process has open
AlreadyOpen(hs, fn) == \E h \in DOMAIN hs : hs[h].open /\ hs[h].file = fn

\* the table a node refers to; a node of a closed file is closed
NodeIsOpen(hs, node) == node # Unset /\ hs[node.h].open
TableOf(fs, hs, node) == fs[hs[node.h].file]

\* File.get_node('/name') succeeds when the file has that table
HasNode(fs, fn, name) == fs[fn].node = name

Outcome(op, raised, from, to, cond) ==
    [op |-> op, raised |-> raised, from |-> from, to |-> to, cond |-> cond]
NoCond == [op |-> "", v |-> D_0_0]

SearchIdle ==
    /\ like1 = <<>>
    /\ n_min = N_MIN_DEFAULT
    /\ threshold = Start
    /\ n = 0
    /\ pc = "idle"

Init ==
    /\ \E col \in SeqsUpTo(SessionLikes, MaxRows),
          fn \in {DefaultFilename, OtherFilename}, nd \in ModelNames :
            files = (fn :> [node |-> nd, desc |-> Description(nd),
                            rows |-> NumberRows(col)])
    /\ model_str \in ModelNames
    /\ handles = <<>>
    /\ obj = "new"
    /\ result_filename = Unset
    /\ data_file = 0
    /\ data = Unset
    /\ self_threshold = Unset
    /\ self_n = 0
    /\ last = Outcome("none", "none", Unset, Unset, NoCond)
    /\ SearchIdle
    /\ ObjectiveIdle /\ MainIdle /\ NetworkIdle

SessionIdle ==
    /\ files = <<>>
    /\ handles = <<>>
    /\ obj = "new"
    /\ model_str = MODULE_NAME
    /\ result_filename = Unset
    /\ data_file = 0
    /\ data = Unset
    /\ self_threshold = Unset
    /\ self_n = 0
    /\ last = Outcome("none", "none", Unset, Unset, NoCond)

\* BaseResult.__init__(model, result_file)
Construct(result_file) ==
    /\ obj = "new"
    /\ LET fn == IF result_file # Unset THEN result_file ELSE DefaultFilename
           hs == OpenHandle(handles, fn)
           h  == Len(hs)
           t  == calculate_threshold(Like1Col(files[fn].rows), N_MIN_DEFAULT)
       IN  /\ result_filename' = fn
           /\ IF fn \notin DOMAIN files
              THEN \* tables.open_file raises
                   /\ obj' = "failed"
                   /\ last' = Outcome("init", "open_file", Unset, fn, NoCond)
                   /\ UNCHANGED <<handles, data_file, data, self_threshold, self_n>>
              ELSE IF ~HasNode(files, fn, model_str)
              THEN \* get_node raises; the file stays open
                   /\ handles' = hs
                   /\ data_file' = h
                   /\ obj' = "failed"
                   /\ last' = Outcome("init", "get_node", Unset, fn, NoCond)
                   /\ UNCHANGED <<data, self_threshold, self_n>>
              ELSE /\ handles' = hs
                   /\ data_file' = h
                   /\ data' = [h |-> h, node |-> model_str]
                   /\ self_threshold' = t[1]
                   /\ self_n' = t[2]
                   /\ obj' = "live"
                   /\ last' = Outcome("init", "none", Unset, fn, NoCond)
    /\ UNCHANGED <<files, model_str>>

\* BaseResult.prune_results(condition); io is the step at which the
\* system fails to write, if any: open, create, append
prune_results(cond, io) ==
    /\ obj = "live"
    /\ PrunedDepth(result_filename) < MaxPrunes
    /\ LET new_filename == Replace(result_filename)
           src          == TableOf(files, handles, data)
           pruned_data  == ReadWhere(src.rows, cond)
           whs          == OpenWhileWriting(handles, data_file)
           out(r)       == Outcome("prune", r, result_filename, new_filename, cond)
           empty        == [node |-> NoTable, desc |-> "", rows |-> <<>>]
           tab(rows)    == [node |-> MODULE_NAME, desc |-> src.desc, rows |-> rows]
           put(f)       == [x \in DOMAIN files \cup {new_filename} |->
                               IF x = new_filename THEN f ELSE files[x]]
       IN  IF ~NodeIsOpen(handles, data) \/ cond.op = "invalid"
           THEN \* read_where raises
                /\ last' = out("read_where")
                /\ UNCHANGED <<files, handles, result_filename, data_file, data>>
           ELSE IF AlreadyOpen(whs, new_filename) \/ io = "open"
           THEN \* open_file(new_filename, 'w') raises
                /\ last' = out("open_w")
                /\ handles' = whs
                /\ UNCHANGED <<files, result_filename, data_file, data>>
           ELSE IF io = "create"
           THEN \* tables.Table raises, the with block closes the new file
                /\ files' = put(empty)
                /\ last' = out("create")
                /\ handles' = whs
                /\ UNCHANGED <<result_filename, data_file, data>>
           ELSE IF io = "append"
           THEN \* tab.append raises after some of the rows
                /\ \E written \in 0..Len(pruned_data) :
                       files' = put(tab(SubSeq(pruned_data, 1, written)))
                /\ last' = out("append")
                /\ handles' = whs
                /\ UNCHANGED <<result_filename, data_file, data>>
           ELSE LET hs == OpenHandle(whs, new_filename)
                IN  /\ files' = put(tab(pruned_data))
                    /\ result_filename' = new_filename
                    /\ handles' = hs
                    /\ data_file' = Len(hs)
                    /\ IF HasNode(files', new_filename, model_str)
                       THEN /\ data' = [h |-> Len(hs), node |-> model_str]
                            /\ last' = out("none")
                       ELSE \* get_node raises
                            /\ data' = data
                            /\ last' = out("get_node")
    /\ UNCHANGED <<obj, model_str, self_threshold, self_n>>

\* a File.close() that refuses a file that is closed already
CloseRaises_strict(hs, h) == ~hs[h].open

\* tables.File.close() returns at once when the file is closed already
CloseRaises(hs, h) == FALSE

\* how a call of close ended; reopened: the file was closed before the call
Closed(op, raised, again) == [op |-> op, raised |-> raised, again |-> again]

\* self.data_file.close(), called by op
FileClose(op) ==
    IF CloseRaises(handles, data_file)
    THEN /\ last' = Closed(op, "close", TRUE)
         /\ UNCHANGED handles
    ELSE /\ handles' = CloseHandle(handles, data_file)
         /\ last' = Closed(op, "none", ~handles[data_file].open)

\* BaseResult.close()
close ==
    /\ obj = "live"
    /\ FileClose("close")
    /\ UNCHANGED <<files, obj, model_str, result_filename, data_file, data,
                   self_threshold, self_n>>

\* BaseResult.__exit__: the with block is left
exit ==
    /\ obj = "live"
    /\ FileClose("exit")
    /\ obj' = "exited"
    /\ UNCHANGED <<files, model_str, result_filename, data_file, data,
                   self_threshold, self_n>>

\* ------------------------------------------------------------ the reports
\* np.argmax that keeps the last of several maxima
RECURSIVE argmax_last(_, _, _)
argmax_last(col, i, best) ==
    IF i > Len(col) THEN best - 1
    ELSE argmax_last(col, i + 1, IF DGe(col[i], col[best]) THEN i ELSE best)

\* np.argmax over col from position i on, best the maximum so far; the
\* result is the 0-based row number
RECURSIVE argmax(_, _, _)
argmax(col, i, best) ==
    IF i > Len(col) THEN best - 1
    ELSE argmax(col, i + 1, IF DGt(col[i], col[best]) THEN i ELSE best)

\* best_run_id(): np.array(self.data.cols.like1[:]).argmax()
best_run_id(col) == argmax(col, 2, 1)

\* like(row): the like columns of the row; the tables the sampler writes
\* carry like1 to like4, of which like1 is the one modelled
like(rows, row) == <<rows[row + 1][2]>>

\* take = like1 > self.threshold: the rows taken
Take(rows, thr) == SelectSeq(rows, LAMBDA r : DGt(r[2], thr))
RunIds(rows) == [i \in DOMAIN rows |-> rows[i][1]]

\* what the reports leave unchanged: everything but last
ReadOnly ==
    UNCHANGED <<files, handles, obj, model_str, result_filename, data_file,
                data, self_threshold, self_n>>

\* a summary that takes the accepted count from the table it reads
summary_recounting ==
    /\ obj = "live"
    /\ NodeIsOpen(handles, data)
    /\ TableOf(files, handles, data).rows # <<>>
    /\ LET rows == TableOf(files, handles, data).rows
           best == best_run_id(Like1Col(rows))
       IN  /\ self_n' = Len(rows)
           /\ last' = [op |-> "summary", raised |-> "none", best |-> best,
                       likes |-> like(rows, best), n |-> self_n',
                       total |-> Len(rows)]
    /\ UNCHANGED <<files, handles, obj, model_str, result_filename, data_file,
                   data, self_threshold>>

\* BaseResult.summary(): the text holds the objectives of the best run,
\* self.n and len(self.data)
summary ==
    /\ obj = "live"
    /\ IF ~NodeIsOpen(handles, data)
       THEN \* the node is closed
            last' = [op |-> "summary", raised |-> "ClosedNodeError"]
       ELSE LET rows == TableOf(files, handles, data).rows
                best == best_run_id(Like1Col(rows))
            IN  IF rows = <<>>
                THEN \* argmax of an empty array
                     last' = [op |-> "summary", raised |-> "ValueError"]
                ELSE last' = [op |-> "summary", raised |-> "none",
                              best |-> best, likes |-> like(rows, best),
                              n |-> self_n, total |-> Len(rows)]
    /\ ReadOnly

\* BaseResult.timeseries_plot() up to the percentiles; np.percentile of no
\* rows gives, depending on the numpy at hand, a band of NaN or an
\* IndexError
timeseries_plot ==
    /\ obj = "live"
    /\ IF ~NodeIsOpen(handles, data)
       THEN last' = [op |-> "timeseries", raised |-> "ClosedNodeError"]
       ELSE LET rows  == TableOf(files, handles, data).rows
                best  == best_run_id(Like1Col(rows))
                taken == Take(rows, self_threshold)
                out(r, b) == [op |-> "timeseries", raised |-> r, best |-> best,
                              taken |-> RunIds(taken), band |-> b]
            IN  IF rows = <<>>
                THEN last' = [op |-> "timeseries", raised |-> "ValueError"]
                ELSE IF taken = <<>>
                THEN last' \in {out("none", "nan"), out("IndexError", "none")}
                ELSE last' = out("none", "p5-p95")
    /\ ReadOnly

\* the names of the par columns: cn[3:] for the column names with 'par'
ParNames(desc) ==
    IF desc = Description(MODULE_NAME) THEN <<"A">> ELSE <<"A", "B">>

\* self.data.col(f'par{pn}'): in the tables here parameter A has one value
\* in all runs and parameter B a value of its own in each run
ParValue(row, pn) == IF pn = "A" THEN 0 ELSE row[1]

\* gaussian_kde(params): too few values and values without spread fail
gaussian_kde(params) ==
    IF Len(params) < 2 THEN "ValueError"
    ELSE IF \A i, j \in DOMAIN params : params[i] = params[j] THEN "LinAlgError"
    ELSE "curve"

\* an except clause without LinAlgError
Caught_narrow(exc) == exc = "ValueError"

\* except (np.linalg.linalg.LinAlgError, ValueError): pass
Caught(exc) == exc \in {"LinAlgError", "ValueError"}

\* the loop over the parameters: dots, the parameters plotted; curves, the
\* ones with a density curve; raised, the exception that ended the loop
RECURSIVE DottyLoop(_, _, _)
DottyLoop(p_names, taken, acc) ==
    IF p_names = <<>> THEN acc
    ELSE LET pn     == Head(p_names)
             params == [i \in DOMAIN taken |-> ParValue(taken[i], pn)]
             gk     == gaussian_kde(params)
             dotted == [acc EXCEPT !.dots = Append(acc.dots, pn)]
         IN  IF gk = "curve"
             THEN DottyLoop(Tail(p_names), taken,
                            [dotted EXCEPT !.curves = Append(dotted.curves, pn)])
             ELSE IF Caught(gk)
             THEN DottyLoop(Tail(p_names), taken, dotted)
             ELSE [dotted EXCEPT !.raised = gk]

\* BaseResult.dotty_plot()
dotty_plot ==
    /\ obj = "live"
    /\ IF ~NodeIsOpen(handles, data)
       THEN last' = [op |-> "dotty", raised |-> "ClosedNodeError"]
       ELSE LET tab   == TableOf(files, handles, data)
                taken == Take(tab.rows, self_threshold)
            IN  last' = DottyLoop(ParNames(tab.desc), taken,
                                  [op |-> "dotty", raised |-> "none",
                                   taken |-> RunIds(taken),
                                   dots |-> <<>>, curves |-> <<>>])
    /\ ReadOnly

\* the conditions prune_results is called with: read_where of a closed node
\* raises before it looks at the condition, so one condition stands for all
Given ==
    IF obj = "live" /\ ~NodeIsOpen(handles, data)
    THEN {[op |-> ">=", v |-> D_0_0]}
    ELSE Conditions

\* the steps at which the system can fail to write in a call of
\* prune_results(cond): none when the call ends before it writes
Failures(cond) ==
    IF obj # "live" THEN {}
    ELSE IF ~NodeIsOpen(handles, data) \/ cond.op = "invalid" THEN {"none"}
    ELSE IF AlreadyOpen(OpenWhileWriting(handles, data_file), Replace(result_filename))
    THEN {"none"}
    ELSE {"none", "open", "create", "append"}

Next ==
    \/ (\E rf \in {Unset, DefaultFilename, OtherFilename} : Construct(rf)) /\ UNCHANGED <<tvars, ovars, mvars, gvars>>
    \/ (\E c \in Given : \E io \in Failures(c) :
           prune_results(c, io)) /\ UNCHANGED <<tvars, ovars, mvars, gvars>>
    \/ summary /\ UNCHANGED <<tvars, ovars, mvars, gvars>>
    \/ timeseries_plot /\ UNCHANGED <<tvars, ovars, mvars, gvars>>
    \/ dotty_plot /\ UNCHANGED <<tvars, ovars, mvars, gvars>>
    \/ close /\ UNCHANGED <<tvars, ovars, mvars, gvars>>
    \/ exit /\ UNCHANGED <<tvars, ovars, mvars, gvars>>

Spec == Init /\ [][Next]_vars

\* ------------------------------------------- calculate_threshold, stepwise
InitSearch ==
    /\ like1 \in SeqsUpTo(Likes, MaxRows)
    /\ n_min \in 0..MaxNMin
    /\ threshold = Start
    /\ n = 0
    /\ pc = "idle"
    /\ SessionIdle
    /\ ObjectiveIdle /\ MainIdle /\ NetworkIdle

\* threshold = 0.7 ; n = 0
SearchBegin ==
    /\ pc = "idle"
    /\ threshold' = Start
    /\ n' = 0
    /\ pc' = "loop"
    /\ UNCHANGED <<like1, n_min, svars, ovars, mvars, gvars>>

\* one pass of the while loop: threshold -= 0.05
SearchStep ==
    /\ pc = "loop"
    /\ LoopCond(like1, n_min, threshold)
    /\ threshold' = Decrement(threshold)
    /\ UNCHANGED <<like1, n_min, n, pc, svars, ovars, mvars, gvars>>

\* the loop ends: n = np.sum(... > threshold) ; return threshold, n
SearchReturn ==
    /\ pc = "loop"
    /\ ~LoopCond(like1, n_min, threshold)
    /\ n' = Count(like1, threshold)
    /\ pc' = "done"
    /\ UNCHANGED <<like1, n_min, threshold, svars, ovars, mvars, gvars>>

NextSearch == SearchBegin \/ SearchStep \/ SearchReturn

SpecSearch == InitSearch /\ [][NextSearch]_vars

\* the scheduler runs the loop to its end
SpecSearchFair == SpecSearch /\ WF_vars(NextSearch)
SearchTerminates == <>(pc = "done")


\* ------------------------------------------- BaseModel.objectivefunction
\* A series is a sequence of runs [v, k]: k days in a row with the value v.
\* The values are small integers, for which the sums numpy takes are exact
\* in doubles; an objective is the fraction p/q, or nan, or -inf.
MaxRuns == 2

CALIBRATION_START == 2000       \* BaseModel.calibration_start

\* datetime.datetime(year, 1, 1) as a day number (date.toordinal)
JanFirst(year) ==
    365 * (year - 1) + ((year - 1) \div 4) - ((year - 1) \div 100)
        + ((year - 1) \div 400) + 1

\* getindex(year): (dt - self.data.begin).days
getindex(year, data_begin) == JanFirst(year) - data_begin

RECURSIVE RLen(_)
RLen(series) == IF series = <<>> THEN 0 ELSE Head(series).k + RLen(Tail(series))

Min(a, b) == IF a < b THEN a ELSE b
Max(a, b) == IF a > b THEN a ELSE b

\* a slice bound as Python reads it: a negative bound counts from the end,
\* and every bound is clipped to the series
PyBound(i, len) == IF i < 0 THEN Max(i + len, 0) ELSE Min(i, len)

RECURSIVE Drop(_, _)
Drop(series, d) ==
    IF d = 0 \/ series = <<>> THEN series
    ELSE IF d >= Head(series).k THEN Drop(Tail(series), d - Head(series).k)
    ELSE <<[v |-> Head(series).v, k |-> Head(series).k - d]>> \o Tail(series)

RECURSIVE Keep(_, _)
Keep(series, t) ==
    IF t = 0 \/ series = <<>> THEN <<>>
    ELSE IF t >= Head(series).k
    THEN <<Head(series)>> \o Keep(Tail(series), t - Head(series).k)
    ELSE <<[v |-> Head(series).v, k |-> t]>>

\* a slice that takes the element at its upper bound with it
PySlice_inclusive(series, a, b) ==
    LET lo == PyBound(a, RLen(series))
        hi == PyBound(b, RLen(series))
    IN  Keep(Drop(series, lo), Max(hi - lo + 1, 0))

\* series[a:b]
PySlice(series, a, b) ==
    LET lo == PyBound(a, RLen(series))
        hi == PyBound(b, RLen(series))
    IN  Keep(Drop(series, lo), Max(hi - lo, 0))

\* series[a:]
PySliceFrom(series, a) == PySlice(series, a, RLen(series))

\* two series of one length side by side: runs [e, s, k]
RECURSIVE Zip(_, _)
Zip(e, s) ==
    IF e = <<>> \/ s = <<>> THEN <<>>
    ELSE LET k == Min(Head(e).k, Head(s).k)
         IN  <<[e |-> Head(e).v, s |-> Head(s).v, k |-> k]>>
                 \o Zip(Drop(e, k), Drop(s, k))

RECURSIVE SeqSum(_)
SeqSum(xs) == IF xs = <<>> THEN 0 ELSE Head(xs) + SeqSum(Tail(xs))

\* the sum of F over the days of the runs
RSum(runs, F(_)) == SeqSum([i \in DOMAIN runs |-> F(runs[i]) * runs[i].k])

Num(p, q) == [kind |-> "num", p |-> p, q |-> q]
NaN == [kind |-> "nan", p |-> 0, q |-> 1]
MinusInf == [kind |-> "-inf", p |-> 0, q |-> 1]

\* len(e) times np.nansum((e - np.nanmean(e)) ** 2)
Spread(e) ==
    LET sq(r) == r.v * r.v
        id(r) == r.v
    IN  RLen(e) * RSum(e, sq) - RSum(e, id) * RSum(e, id)

\* spotpy.objectivefunctions.nashsutcliffe(evaluation, simulation):
\* 1 - numerator / denominator, nan for series of different length
nashsutcliffe(e, s) ==
    LET err(r)    == (r.e - r.s) * (r.e - r.s)
        numerator == RSum(Zip(e, s), err)
    IN  IF RLen(e) # RLen(s) THEN NaN
        ELSE IF Spread(e) = 0
        THEN (IF numerator = 0 THEN NaN ELSE MinusInf)
        ELSE Num(Spread(e) - numerator * RLen(e), Spread(e))

\* spotpy.objectivefunctions.pbias(evaluation, simulation):
\* 100 * (float(nansum(sim - obs)) / float(nansum(obs)))
pbias(e, s) ==
    LET dif(r) == r.s - r.e
        id(r)  == r.v
    IN  IF RLen(e) # RLen(s) THEN NaN
        ELSE IF RSum(e, id) = 0 THEN [kind |-> "ZeroDivisionError", p |-> 0, q |-> 1]
        ELSE Num(100 * RSum(Zip(e, s), dif), RSum(e, id))

Objective(name, x) == [name |-> name, kind |-> x.kind, p |-> x.p, q |-> x.q]

\* an objectivefunction that takes the simulation of the calibration
\* period up to the end of the series
objectivefunction_long(sim, eva, data_begin, cal, val) ==
    LET c_start == getindex(cal, data_begin)
        v_start == getindex(val, data_begin)
        nse_c   == nashsutcliffe(PySlice(eva, c_start, v_start), PySliceFrom(sim, c_start))
        pbias_c == pbias(PySlice(eva, c_start, v_start), PySliceFrom(sim, c_start))
        nse_v   == nashsutcliffe(PySliceFrom(eva, v_start), PySliceFrom(sim, v_start))
        pbias_v == pbias(PySliceFrom(eva, v_start), PySliceFrom(sim, v_start))
    IN  IF pbias_c.kind = "ZeroDivisionError" \/ pbias_v.kind = "ZeroDivisionError"
        THEN [raised |-> "ZeroDivisionError", values |-> <<>>]
        ELSE [raised |-> "none",
              values |-> <<Objective("NSE_c", nse_c), Objective("NSE_v", nse_v),
                           Objective("PBIAS_c", pbias_c), Objective("PBIAS_v", pbias_v)>>]

\* BaseModel.objectivefunction(simulation, evaluation)
objectivefunction(sim, eva, data_begin, cal, val) ==
    LET c_start == getindex(cal, data_begin)
        v_start == getindex(val, data_begin)
        nse_c   == nashsutcliffe(PySlice(eva, c_start, v_start), PySlice(sim, c_start, v_start))
        pbias_c == pbias(PySlice(eva, c_start, v_start), PySlice(sim, c_start, v_start))
        nse_v   == nashsutcliffe(PySliceFrom(eva, v_start), PySliceFrom(sim, v_start))
        pbias_v == pbias(PySliceFrom(eva, v_start), PySliceFrom(sim, v_start))
    IN  IF pbias_c.kind = "ZeroDivisionError" \/ pbias_v.kind = "ZeroDivisionError"
        THEN [raised |-> "ZeroDivisionError", values |-> <<>>]
        ELSE [raised |-> "none",
              values |-> <<Objective("NSE_c", nse_c), Objective("NSE_v", nse_v),
                           Objective("PBIAS_c", pbias_c), Objective("PBIAS_v", pbias_v)>>]

\* the inputs: discharges, lengths of runs in days, years around the
\* default calibration start, a series that begins on January 1 or later;
\* the DataProvider reads the step from the first two dates, so that a
\* series has two days at least
Flows == {0, 1, 2}
RunDays == {1, 365, 731}
Years == (CALIBRATION_START - 1)..(CALIBRATION_START + 2)
Begins == {JanFirst(CALIBRATION_START), JanFirst(CALIBRATION_START) + 100}
Runs == {[v |-> v, k |-> k] : v \in Flows, k \in RunDays}

\* a simulation that is one above the observation on every day
Above(series) == [i \in DOMAIN series |-> [v |-> series[i].v + 1, k |-> series[i].k]]

InitObjective ==
    /\ begin \in Begins
    /\ calibration_start \in Years
    /\ validation_start \in Years
    /\ evaluation \in {e \in SeqsUpTo(Runs, MaxRuns) : RLen(e) >= 2}
    /\ simulation \in {evaluation, Above(evaluation)}
    /\ objectives = [raised |-> "idle", values |-> <<>>]
    /\ SearchIdle /\ SessionIdle /\ MainIdle /\ NetworkIdle

\* self.objectivefunction(result_array, self.evaluation())
Evaluate ==
    /\ objectives.raised = "idle"
    /\ objectives' = objectivefunction(simulation, evaluation, begin,
                                        calibration_start, validation_start)
    /\ UNCHANGED <<begin, calibration_start, validation_start, evaluation,
                   simulation, tvars, svars, mvars, gvars>>

NextObjective == Evaluate

SpecObjective == InitObjective /\ [][NextObjective]_vars


\* ------------------------------------------------ __main__.main, commands
\* A command line argument is a sequence of pieces: "--", "=", "_" and
\* words; a name of the module commands is one too.
MaxArgs == 3

\* vars(commands): the names the module commands binds
ModuleVars ==
    {<<"_", "get_model_class">>, <<"_", "BaseModel">>, <<"gui">>, <<"result">>,
     <<"doc">>, <<"descr">>, <<"run">>}

\* get_commands(): the names that do not start with '_'
get_commands == {name \in ModuleVars : Head(name) # "_"}

\* '=' in arg
HasEq(arg) == \E i \in DOMAIN arg : arg[i] = "="

\* arg.strip().lstrip('-')
RECURSIVE LStrip(_)
LStrip(arg) ==
    IF arg # <<>> /\ Head(arg) = "--" THEN LStrip(Tail(arg)) ELSE arg

\* str.lower() of the words that occur
Lower(word) == IF word = "RUNS" THEN "runs" ELSE word

\* split('=', 1): the pieces before and after the first '='
FirstEq(arg) == CHOOSE i \in DOMAIN arg : arg[i] = "=" /\ \A j \in 1..(i - 1) : arg[j] # "="
KeyOf(arg) ==
    LET a == LStrip(arg)
        k == SubSeq(a, 1, FirstEq(a) - 1)
    IN  [i \in DOMAIN k |-> Lower(k[i])]
ValueOf(arg) ==
    LET a == LStrip(arg) IN SubSeq(a, FirstEq(a) + 1, Len(a))

\* the loop over sys.argv[1:]: args, the arguments without '='
ParseArgs(av) == SelectSeq(av, LAMBDA arg : ~HasEq(arg))

\* kwargs[k.lower()] = v: a later argument replaces an earlier one
RECURSIVE ParseKwargs(_)
ParseKwargs(av) ==
    IF av = <<>> THEN <<>>
    ELSE LET front == ParseKwargs(SubSeq(av, 1, Len(av) - 1))
             arg   == av[Len(av)]
         IN  IF ~HasEq(arg) THEN front
             ELSE [k \in DOMAIN front \cup {KeyOf(arg)} |->
                       IF k = KeyOf(arg) THEN ValueOf(arg) ELSE front[k]]

\* the parameters of the command functions: positional names, whether
\* further positional arguments are taken (*setups), keyword-only names
Signature(f) ==
    IF f = <<"run">>
    THEN [pos |-> <<"model", "runs", "sampler">>, star |-> FALSE, kw |-> {}]
    ELSE IF f = <<"doc">> THEN [pos |-> <<>>, star |-> TRUE, kw |-> {"in_browser"}]
    ELSE IF f = <<"result">> THEN [pos |-> <<>>, star |-> TRUE, kw |-> {}]
    ELSE [pos |-> <<"model">>, star |-> FALSE, kw |-> {}]

\* f(*args, **kwargs): Python raises TypeError when the arguments do not
\* fit the parameters; model is the one parameter without a default
Binds(f, args, kwargs) ==
    LET sig   == Signature(f)
        named == {sig.pos[i] : i \in DOMAIN sig.pos}
        given == {sig.pos[i] : i \in DOMAIN sig.pos \cap DOMAIN args}
    IN  /\ sig.star \/ Len(args) <= Len(sig.pos)
        /\ \A k \in DOMAIN kwargs :
               /\ Len(k) = 1
               /\ k[1] \in (named \cup sig.kw) \ given
        /\ "model" \in named =>
               (1 \in DOMAIN args \/ <<"model">> \in DOMAIN kwargs)

\* the value a parameter of run is bound to, NoValue for its default None
Bound(name, i, args, kwargs) ==
    IF i \in DOMAIN args THEN args[i]
    ELSE IF <<name>> \in DOMAIN kwargs THEN kwargs[<<name>>]
    ELSE <<NoValue>>

\* int(text) for the texts that occur
IsNumber(text) == text \in {<<"0">>, <<"2">>, <<"3">>}
IntOf(text) == IF text = <<"0">> THEN 0 ELSE IF text = <<"2">> THEN 2 ELSE 3

\* a get_runs that does not look at the environment
get_runs_default(default, env) == default

\* spotpy_helper.get_runs(default)
get_runs(default, env) == IF env # <<NoValue>> THEN IntOf(env) ELSE default

\* commands.run(model, runs, sampler): what the model is made to do
run(runs, sampler, env) ==
    IF runs = <<NoValue>> \/ runs = <<>>
    THEN \* m.verbose = True ; m.simulation(create_set(m, 'optguess'))
         [raised |-> "none",
          work |-> <<[what |-> "simulation", verbose |-> TRUE,
                      parameters |-> "optguess", runs |-> 1]>>]
    ELSE IF ~IsNumber(runs)
    THEN [raised |-> "ValueError", work |-> <<>>]
    ELSE \* m.verbose = False ; sample(m, int(runs), sampler, ...)
         [raised |-> "none",
          work |-> <<[what |-> "sample", verbose |-> FALSE,
                      parameters |-> IF sampler = <<NoValue>> THEN <<"lhs">> ELSE sampler,
                      runs |-> get_runs(IntOf(runs), env)]>>]

\* the command line arguments that occur
Arguments ==
    {<<"run">>, <<"doc">>, <<"_", "get_model_class">>, <<"model.py">>,
     <<"help">>, <<"2">>, <<"0">>, <<"--", "RUNS", "=", "2">>,
     <<"help", "=", "1">>}

InitMain ==
    /\ argv \in SeqsUpTo(Arguments, MaxArgs)
    /\ environ \in {<<NoValue>>, <<"3">>}
    /\ invoked = <<>>
    /\ stderr = [text |-> NoValue, of |-> <<>>]
    /\ status = "idle"
    /\ work = <<>>
    /\ SearchIdle /\ SessionIdle /\ ObjectiveIdle /\ NetworkIdle

\* main() without arguments: the command line is read from sys.argv
main ==
    /\ status = "idle"
    /\ LET args     == ParseArgs(argv)
           kwargs   == ParseKwargs(argv)
           commands == get_commands
           f        == Head(args)
           rest     == Tail(args)
       IN  IF args = <<>> /\ DOMAIN kwargs = {}
           THEN \* the usage line and exit(1)
                /\ stderr' = [text |-> "usage", of |-> <<>>] /\ status' = "exit 1"
                /\ UNCHANGED <<invoked, work>>
           ELSE IF args = <<>>
           THEN \* args[0] of an empty list
                /\ status' = "IndexError"
                /\ UNCHANGED <<invoked, stderr, work>>
           ELSE IF f \notin commands
           THEN /\ stderr' = [text |-> "usage", of |-> <<>>] /\ status' = "exit 1"
                /\ UNCHANGED <<invoked, work>>
           ELSE IF (\E i \in DOMAIN rest : rest[i] = <<"help">>)
                       \/ <<"help">> \in DOMAIN kwargs
           THEN \* sys.stderr.write(f.__doc__)
                /\ stderr' = [text |-> "doc", of |-> f] /\ status' = "returned"
                /\ UNCHANGED <<invoked, work>>
           ELSE IF ~Binds(f, rest, kwargs)
           THEN /\ invoked' = <<[f |-> f, args |-> rest, kwargs |-> kwargs]>>
                /\ status' = "TypeError"
                /\ UNCHANGED <<stderr, work>>
           ELSE IF f = <<"run">>
           THEN LET r == run(Bound("runs", 2, rest, kwargs),
                             Bound("sampler", 3, rest, kwargs), environ)
                IN  /\ invoked' = <<[f |-> f, args |-> rest, kwargs |-> kwargs]>>
                    /\ work' = r.work
                    /\ status' = IF r.raised = "none" THEN "returned" ELSE r.raised
                    /\ UNCHANGED stderr
           ELSE /\ invoked' = <<[f |-> f, args |-> rest, kwargs |-> kwargs]>>
                /\ status' = "returned"
                /\ UNCHANGED <<stderr, work>>
    /\ UNCHANGED <<argv, environ, tvars, svars, ovars, gvars>>

NextMain == main

SpecMain == InitMain /\ [][NextMain]_vars


\* ------------------------------------------------ gui.fluxogram.Network
\* The flux nodes of the project are 1..MaxNodes; a connection is the pair
\* <<left node, right node>>.
MaxNodes == 4

NodeIds == 1..MaxNodes
Outlet == 1                     \* the node Network is made from
Pairs == {<<a, b>> : a \in NodeIds, b \in NodeIds} \ {<<a, a>> : a \in NodeIds}

\* c.get_target(node): the other end of the connection
get_target(c, node) == IF c[1] = node THEN c[2] ELSE c[1]

\* node.connections, in the order of the other end or against it
RECURSIVE InOrder(_, _, _)
InOrder(cs, node, down) ==
    IF cs = {} THEN <<>>
    ELSE LET c == CHOOSE x \in cs : \A y \in cs :
                      IF down THEN get_target(x, node) >= get_target(y, node)
                      ELSE get_target(x, node) <= get_target(y, node)
         IN  <<c>> \o InOrder(cs \ {c}, node, down)
Connections(node, down) ==
    InOrder({c \in connections : c[1] = node \/ c[2] = node}, node, down)

\* the storages of the project: every node but the outlet
Storages == NodeIds \ {Outlet}

\* a test that never finds the outlet among the nodes
Known_butoutlet(target, ns) == target \in ns \ {Outlet}

\* target.node_id in self.nodes
Known(target, ns) == target \in ns

InitNetwork ==
    /\ connections \in SUBSET {c \in Pairs : c[1] < c[2]}
    /\ nodes = {}
    /\ graph_nodes = {}
    /\ graph_edges = {}
    /\ stack = <<>>
    /\ visits = [i \in NodeIds |-> 0]
    /\ npc \in {"new up", "new down"}
    /\ SearchIdle /\ SessionIdle /\ ObjectiveIdle /\ MainIdle

\* the first lines of add_node(node): graph.add_node, self.nodes[id] = node
Enter(node, frames) ==
    /\ graph_nodes' = graph_nodes \cup {node}
    /\ nodes' = nodes \cup {node}
    /\ visits' = [visits EXCEPT ![node] = @ + 1]
    /\ stack' = Append(frames, [node |-> node,
                                todo |-> Connections(node, npc \in {"new down", "down"})])

\* Network.__init__: self.add_node(outlet)
NetworkBegin ==
    /\ npc \in {"new up", "new down"}
    /\ Enter(Outlet, stack)
    /\ npc' = IF npc = "new down" THEN "down" ELSE "up"
    /\ UNCHANGED <<connections, graph_edges, tvars, svars, ovars, mvars>>

\* one pass of the loop over node.connections
AddNodeStep ==
    /\ npc \in {"up", "down"}
    /\ stack # <<>>
    /\ stack[Len(stack)].todo # <<>>
    /\ LET top    == stack[Len(stack)]
           c      == Head(top.todo)
           target == get_target(c, top.node)
           frames == [stack EXCEPT ![Len(stack)].todo = Tail(top.todo)]
       IN  /\ graph_edges' = graph_edges \cup {{c[1], c[2]}}
           /\ IF ~Known(target, nodes)
              THEN Enter(target, frames)
              ELSE /\ stack' = frames
                   /\ graph_nodes' = graph_nodes \cup {c[1], c[2]}
                   /\ UNCHANGED <<nodes, visits>>
    /\ UNCHANGED <<connections, npc, tvars, svars, ovars, mvars>>

\* the loop of a call of add_node is over
AddNodeReturn ==
    /\ npc \in {"up", "down"}
    /\ stack # <<>>
    /\ stack[Len(stack)].todo = <<>>
    /\ stack' = SubSeq(stack, 1, Len(stack) - 1)
    /\ UNCHANGED <<connections, nodes, graph_nodes, graph_edges, visits, npc,
                   tvars, svars, ovars, mvars>>

\* __replace_abstract_nodes_with_concrete_storages(outlet.project)
NetworkEnd ==
    /\ npc \in {"up", "down"}
    /\ stack = <<>>
    /\ nodes' = nodes \cup Storages
    /\ npc' = "done"
    /\ UNCHANGED <<connections, graph_nodes, graph_edges, stack, visits,
                   tvars, svars, ovars, mvars>>

NextNetwork == NetworkBegin \/ AddNodeStep \/ AddNodeReturn \/ NetworkEnd

SpecNetwork == InitNetwork /\ [][NextNetwork]_vars

\* the interpreter runs __init__ to its end
SpecNetworkFair == SpecNetwork /\ WF_vars(NextNetwork)

\* ------------------------------------------------------------------------
\* Properties of calculate_threshold (checked under SpecSearch)

\* the number of rows whose like1 is >= thr
CountGe(col, thr) == Cardinality({i \in DOMAIN col : DGe(col[i], thr)})

\* the values 0.7 - k*0.05 that are not below the floor, computed as the
\* loop computes them
RECURSIVE CandidatesFrom(_)
CandidatesFrom(thr) ==
    IF DGe(thr, Floor) THEN {thr} \cup CandidatesFrom(Decrement(thr)) ELSE {}
Candidates == CandidatesFrom(Start)

Returned == pc = "done"

\* C1: the returned n is the number of rows whose like1 is >= the returned
\* threshold, rows equal to the threshold included.
C1_CountIsRowsGeThreshold == Returned => n = CountGe(like1, threshold)

\* C2: the returned threshold is the largest of the values 0.7 - k*0.05,
\* not below the floor, at which at least n_min rows have like1 >= the
\* value, whenever there is such a value.
C2_MostRestrictiveThreshold ==
    Returned =>
        LET ok == {c \in Candidates : CountGe(like1, c) >= n_min}
        IN  ok # {} => (threshold \in ok /\ \A c \in ok : DGe(threshold, c))

\* C3: when the search has returned, the accepted count is at least n_min
\* or the returned threshold is the floor value -2.0.
C3_EnoughRunsOrFloor == Returned => (n >= n_min \/ threshold = Floor)

Permute(col, p) == [i \in DOMAIN col |-> col[p[i]]]

\* C5: every table whose like1 column is a permutation of this one gives
\* the same threshold and the same accepted count.
C5_OrderIndependent ==
    Returned =>
        \A p \in Permutations(DOMAIN like1) :
            calculate_threshold(Permute(like1, p), n_min) = <<threshold, n>>

\* C5 witness: a search over a table that has a different row order has
\* returned after relaxing the threshold, with runs accepted and runs
\* rejected.
C5_Witness ==
    /\ Returned
    /\ \E p \in Permutations(DOMAIN like1) : Permute(like1, p) # like1
    /\ threshold # Start
    /\ n > 0
    /\ n < Len(like1)

\* C6: for an empty table the search returns the floor -2.0 as threshold
\* and 0 as accepted count (n_min >= 1: a search that asks for runs).
C6_EmptyTableGivesFloor ==
    (Returned /\ like1 = <<>> /\ n_min >= 1) => (threshold = Floor /\ n = 0)

\* C7: in every state of the search the threshold is one of the values
\* 0.7 - k*0.05, lies between the floor and the start value inclusive and
\* so has never been decremented below the floor.
C7_ThresholdWithinFloorAndStart ==
    pc \in {"loop", "done"} =>
        /\ threshold \in Candidates
        /\ DGe(threshold, Floor)
        /\ DGe(Start, threshold)

\* ------------------------------------------------------------------------
\* Properties of prune_results (checked under Spec)

\* the step is a call of prune_results
PruneCalled == last'.op = "prune"
\* ... in which writing the new file failed
WriteFailed == PruneCalled /\ last'.raised \in {"open_w", "create", "append"}
\* ... in which the new file was written to its end
WriteDone == PruneCalled /\ last'.raised \in {"none", "get_node"}
\* the files a step creates or changes
Changed == {f \in DOMAIN files' : f \notin DOMAIN files \/ files'[f] # files[f]}

\* C8: every prune_results call derives a path that differs from the path
\* of the file it prunes, and leaves the content of that file as it was.
C8_PruneNeverTouchesOriginal ==
    [][PruneCalled =>
        /\ last'.to # last'.from
        /\ last'.from \in DOMAIN files'
        /\ files'[last'.from] = files[last'.from]]_vars

\* the position of the row r in the table rows
IndexIn(rows, r) == CHOOSE i \in DOMAIN rows : rows[i] = r

\* C9: the table a prune has written has the schema of the source table and
\* holds exactly the rows of the source table that satisfy the condition,
\* each once, in the order they have in the source table.
C9_PrunedTableIsFilteredSource ==
    [][WriteDone =>
        LET src  == TableOf(files, handles, data)
            out  == files'[last'.to]
            keep == {i \in DOMAIN src.rows : Holds(last'.cond, src.rows[i])}
        IN  /\ out.desc = src.desc
            /\ out.node # NoTable
            /\ Len(out.rows) = Cardinality(keep)
            /\ \A i \in keep : \E j \in DOMAIN out.rows : out.rows[j] = src.rows[i]
            /\ \A j \in DOMAIN out.rows :
                   \E i \in keep : out.rows[j] = src.rows[i]
            /\ \A j, k \in DOMAIN out.rows :
                   j < k => IndexIn(src.rows, out.rows[j]) < IndexIn(src.rows, out.rows[k])]_vars

\* C9 witness: a prune has written a table that keeps two or more rows of
\* the source table and drops others.
C9_Witness ==
    /\ last.op = "prune"
    /\ last.raised = "none"
    /\ Len(files[last.to].rows) >= 2
    /\ Len(files[last.to].rows) < Len(files[last.from].rows)

\* C10: when writing the pruned table fails, at whichever step, the file
\* being pruned is still there with the content it had and the object still
\* reads it; no prune writes to the file the object reads, and the object
\* moves to the new file only once that file holds the whole pruned table.
C10_FailedWriteKeepsOriginal ==
    [][PruneCalled =>
        /\ WriteFailed =>
             /\ result_filename \in DOMAIN files'
             /\ files'[result_filename] = files[result_filename]
             /\ result_filename' = result_filename
             /\ data_file' = data_file /\ data' = data
        /\ result_filename \notin Changed
        /\ result_filename' # result_filename =>
             /\ WriteDone
             /\ Changed \subseteq {result_filename'}
             /\ files'[result_filename'].node # NoTable]_vars

\* C10 witness: appending to the new file has failed after the first rows,
\* and the pruned file still holds more rows than the new one.
C10_Witness ==
    /\ last.op = "prune"
    /\ last.raised = "append"
    /\ Len(files[last.to].rows) >= 1
    /\ Len(files[last.from].rows) > Len(files[last.to].rows)

\* C11: pruning the table a prune has just written, with the same
\* condition, writes a table with the same rows (as many, the same content)
\* and the same schema.
C11_PruneIsIdempotent ==
    [][(/\ last.op = "prune" /\ last.raised = "none"
        /\ WriteDone
        /\ last'.cond = last.cond
        /\ handles[data.h].file = last.to) =>
            /\ Len(files'[last'.to].rows) = Len(files[last.to].rows)
            /\ files'[last'.to].rows = files[last.to].rows
            /\ files'[last'.to].desc = files[last.to].desc]_vars

\* C11 witness: a second prune has written its table from the table of a
\* first prune that had dropped rows of the original with this condition.
C11_Witness ==
    /\ last.op = "prune"
    /\ last.raised = "none"
    /\ PrunedDepth(last.from) = 1
    /\ DefaultFilename \in DOMAIN files
    /\ LET orig == files[DefaultFilename].rows
       IN  /\ Len(files[last.from].rows) =
                  Cardinality({i \in DOMAIN orig : Holds(last.cond, orig[i])})
           /\ Len(files[last.from].rows) < Len(orig)
    /\ files[last.to].rows # <<>>
    /\ files[last.to].rows = files[last.from].rows

\* C12: a prune whose condition no row satisfies, and that meets no failure
\* of reading or writing, ends without an error and leaves a table with
\* zero rows and the schema of the source table.
C12_EmptyPruneSucceeds ==
    [][(/\ PruneCalled
        /\ ~WriteFailed
        /\ last'.raised # "read_where"
        /\ \A i \in DOMAIN TableOf(files, handles, data).rows :
               ~Holds(last'.cond, TableOf(files, handles, data).rows[i])) =>
            /\ last'.raised = "none"
            /\ files'[last'.to].node # NoTable
            /\ files'[last'.to].rows = <<>>
            /\ files'[last'.to].desc = TableOf(files, handles, data).desc]_vars

\* C13: once the session is over, left through __exit__ or ended by a
\* failed construction, no file the session opened is still open.
C13_HandlesReleased ==
    obj \in {"exited", "failed"} => \A h \in DOMAIN handles : ~handles[h].open

\* C14: a call of close, or the close of __exit__, on an object whose file
\* is closed already raises nothing and leaves the file closed.
C14_CloseTwiceIsSafe ==
    [][(last'.op \in {"close", "exit"} /\ ~handles[data_file].open) =>
            /\ last'.raised = "none"
            /\ ~handles'[data_file].open
            /\ handles' = handles]_vars

\* C14 witness: the with block has been left after an explicit close.
C14_Witness ==
    /\ last.op = "exit"
    /\ last.again
    /\ last.raised = "none"
    /\ obj = "exited"

\* C15: the threshold and the accepted count of a live object are what the
\* threshold search gives for the table the object reads now, so the count
\* is at most the number of rows of that table.
C15_ThresholdStateIsCurrent ==
    (obj = "live" /\ NodeIsOpen(handles, data)) =>
        LET rows == TableOf(files, handles, data).rows
        IN  /\ self_n <= Len(rows)
            /\ <<self_threshold, self_n>> =
                   calculate_threshold(Like1Col(rows), N_MIN_DEFAULT)

\* C16: a call of summary changes neither the files nor the threshold state
\* nor what the object reads, and a call that follows a call of summary
\* gives the same output.
C16_SummaryIsPure ==
    [][last'.op = "summary" =>
        /\ files' = files /\ handles' = handles
        /\ result_filename' = result_filename /\ data' = data
        /\ self_threshold' = self_threshold /\ self_n' = self_n
        /\ last.op = "summary" => last' = last]_vars

\* C16 witness: summary has returned its text for a table of which only a
\* part is accepted.
C16_Witness ==
    /\ last.op = "summary"
    /\ last.raised = "none"
    /\ last.n > 0
    /\ last.n < last.total

\* C17: the best run is a row with the maximum like1 of the table, and the
\* first such row: every row before it has a smaller like1.
C17_BestRunIsFirstMaximum ==
    (last.op \in {"summary", "timeseries"} /\ "best" \in DOMAIN last) =>
        LET col == Like1Col(TableOf(files, handles, data).rows)
            b   == last.best + 1
        IN  /\ b \in DOMAIN col
            /\ \A i \in DOMAIN col : DGe(col[b], col[i])
            /\ \A i \in 1..(b - 1) : DGt(col[b], col[i])

\* C17 witness: the best run was taken from a table in which two rows share
\* the maximum and the first of them is not the first row.
C17_Witness ==
    /\ last.op = "summary"
    /\ last.raised = "none"
    /\ last.best >= 1
    /\ LET col == Like1Col(TableOf(files, handles, data).rows)
       IN  \E i \in DOMAIN col : i > last.best + 1 /\ col[i] = col[last.best + 1]

\* C18: the percentile band over no accepted rows ends in an
\* InsufficientData error.
C18_EmptyBandFails ==
    (last.op = "timeseries" /\ "taken" \in DOMAIN last /\ last.taken = <<>>) =>
        last.raised = "InsufficientData"

\* the values of parameter pn in the rows taken
ParamsOf(taken, pn) == [i \in DOMAIN taken |-> ParValue(taken[i], pn)]

\* C19: dotty_plot on an open table raises nothing, plots every parameter,
\* draws a density curve for exactly the parameters whose estimate does not
\* fail, and changes neither the threshold state nor the table.
C19_DensityFailureIsLocal ==
    [][(last'.op = "dotty" /\ NodeIsOpen(handles, data)) =>
        LET tab   == TableOf(files, handles, data)
            taken == Take(tab.rows, self_threshold)
            names == ParNames(tab.desc)
        IN  /\ last'.raised = "none"
            /\ last'.dots = names
            /\ \A k \in DOMAIN names :
                   (\E c \in DOMAIN last'.curves : last'.curves[c] = names[k])
                       <=> gaussian_kde(ParamsOf(taken, names[k])) = "curve"
            /\ self_threshold' = self_threshold /\ self_n' = self_n
            /\ files' = files /\ data' = data]_vars

\* C19 witness: the density of the first parameter has failed on values
\* without spread, the second parameter has its curve all the same.
C19_Witness ==
    /\ last.op = "dotty"
    /\ last.raised = "none"
    /\ Len(last.taken) >= 2
    /\ last.dots = <<"A", "B">>
    /\ last.curves = <<"B">>

\* C20: for an object with an accepted count of 0, the table with zero rows
\* included, summary returns without error and reports the count 0.
C20_NoBehaviouralRunsCompletes ==
    (last.op = "summary" /\ last.raised # "ClosedNodeError" /\ self_n = 0) =>
        (last.raised = "none" /\ last.n = 0)

\* C25: the rows the percentile band and the dotty plot are made from are
\* the rows of the table whose like1 is >= the threshold of the object, and
\* there are n of them.
C25_TakenIsBehaviouralSet ==
    (last.op \in {"timeseries", "dotty"} /\ "taken" \in DOMAIN last) =>
        LET rows == TableOf(files, handles, data).rows
        IN  /\ last.taken =
                   RunIds(SelectSeq(rows, LAMBDA r : DGe(r[2], self_threshold)))
            /\ Len(last.taken) = self_n

\* C26: the file name, the file handle and the table of a live object belong
\* to one file, and after a prune that has written its table that file is
\* the pruned file.
C26_ReferencesAgree ==
    obj = "live" =>
        /\ handles[data_file].file = result_filename
        /\ data.h = data_file
        /\ (last.op = "prune" /\ last.raised \in {"none", "get_node"}) =>
               handles[data.h].file = last.to

\* C27: when the accepted count is above zero, the best run of the
\* timeseries plot is one of the rows its band is made from.
C27_BestRunIsBehavioural ==
    (last.op = "timeseries" /\ "best" \in DOMAIN last /\ self_n > 0) =>
        LET rows == TableOf(files, handles, data).rows
        IN  \E k \in DOMAIN last.taken : last.taken[k] = rows[last.best + 1][1]

\* the period slices objectivefunction takes of a series
CalSlice(series) ==
    PySlice(series, getindex(calibration_start, begin),
            getindex(validation_start, begin))
ValSlice(series) == PySliceFrom(series, getindex(validation_start, begin))
Evaluated == objectives.raised # "idle"
IsOne(x) == x.kind = "num" /\ x.p = x.q
IsZero(x) == x.kind = "num" /\ x.p = 0

\* C21: the lengths of the calibration slice and of the validation slice add
\* up to the length of the series less the offset of the calibration start.
C21_SplitRoundTrips ==
    Evaluated =>
        RLen(CalSlice(evaluation)) + RLen(ValSlice(evaluation))
            = RLen(evaluation) - getindex(calibration_start, begin)

\* C21 amended: when the offset of the calibration start lies in the series
\* and is not above the offset of the validation start, the lengths of the
\* two slices add up to the length of the series less that offset.
C21_SplitRoundTripsInRange ==
    (/\ Evaluated
     /\ 0 <= getindex(calibration_start, begin)
     /\ getindex(calibration_start, begin) <= getindex(validation_start, begin)
     /\ getindex(calibration_start, begin) <= RLen(evaluation)) =>
        RLen(CalSlice(evaluation)) + RLen(ValSlice(evaluation))
            = RLen(evaluation) - getindex(calibration_start, begin)

\* C21 witness: a series split into days before the calibration, a
\* calibration period and a validation period.
C21_Witness ==
    /\ Evaluated
    /\ 0 < getindex(calibration_start, begin)
    /\ getindex(calibration_start, begin) < getindex(validation_start, begin)
    /\ getindex(validation_start, begin) < RLen(evaluation)
    /\ RLen(CalSlice(evaluation)) > 0
    /\ RLen(ValSlice(evaluation)) > 0

\* C22: a boundary year whose January 1 lies before the start of the series
\* by more than the length of the series ends the call in InvalidPeriod.
C22_OutOfRangeBoundaryFails ==
    Evaluated =>
        \A year \in {calibration_start, validation_start} :
            getindex(year, begin) < 0 - RLen(evaluation) =>
                objectives.raised = "InvalidPeriod"

\* C23: the list returned holds NSE and PBIAS of the calibration period,
\* then NSE and PBIAS of the validation period.
C23_DocstringOrder ==
    objectives.raised = "none" =>
        [i \in DOMAIN objectives.values |-> objectives.values[i].name]
            = <<"NSE_c", "PBIAS_c", "NSE_v", "PBIAS_v">>

\* C24 as claimed: over each period slice of each series the NSE of the
\* series against itself is 1 and its PBIAS is 0.
C24_SelfScoresExact ==
    Evaluated =>
        \A sl \in {CalSlice(evaluation), ValSlice(evaluation)} :
            IsOne(nashsutcliffe(sl, sl)) /\ IsZero(pbias(sl, sl))

\* C24 amended: over a period slice whose sum of squared deviations from
\* the mean is not zero the NSE of the series against itself is 1, over a
\* slice whose sum is not zero its PBIAS is 0, and objectivefunction returns
\* these values when it is given the observed series as the simulation.
C24_SelfScoresExactWhenDefined ==
    Evaluated =>
        LET id(r) == r.v
            cal   == CalSlice(evaluation)
            val   == ValSlice(evaluation)
        IN  /\ \A sl \in {cal, val} :
                   /\ Spread(sl) # 0 => IsOne(nashsutcliffe(sl, sl))
                   /\ RSum(sl, id) # 0 => IsZero(pbias(sl, sl))
            /\ (simulation = evaluation /\ objectives.raised = "none") =>
                   /\ Spread(cal) # 0 => IsOne(objectives.values[1])
                   /\ Spread(val) # 0 => IsOne(objectives.values[2])
                   /\ IsZero(objectives.values[3])
                   /\ IsZero(objectives.values[4])

\* C24 witness: objectivefunction has scored a series against itself over a
\* calibration period with days of different discharge.
C24_Witness ==
    /\ objectives.raised = "none"
    /\ 0 <= getindex(calibration_start, begin)
    /\ calibration_start < validation_start
    /\ simulation = evaluation
    /\ Spread(CalSlice(evaluation)) # 0
    /\ RLen(ValSlice(evaluation)) > 0
    /\ IsOne(objectives.values[1])
    /\ IsZero(objectives.values[3])
    /\ IsZero(objectives.values[4])

\* 'help' is among the arguments that follow the command
HelpAsked ==
    \/ \E i \in DOMAIN Tail(ParseArgs(argv)) : Tail(ParseArgs(argv))[i] = <<"help">>
    \/ <<"help">> \in DOMAIN ParseKwargs(argv)

\* C28: main calls one command function, the one the first positional
\* argument names, or writes the usage line and exits with status 1; with
\* 'help' among the arguments of a command it writes the documentation of
\* the command and calls nothing; no name with a leading underscore is
\* called.
C28_DispatchOrUsage ==
    status # "idle" =>
        LET args == ParseArgs(argv)
        IN  /\ \/ /\ Len(invoked) = 1
                  /\ args # <<>>
                  /\ invoked[1].f = Head(args)
                  /\ stderr.text = NoValue
               \/ /\ invoked = <<>>
                  /\ stderr.text = "usage"
                  /\ status = "exit 1"
               \/ /\ invoked = <<>>
                  /\ args # <<>>
                  /\ HelpAsked
                  /\ stderr = [text |-> "doc", of |-> Head(args)]
            /\ (args # <<>> /\ Head(Head(args)) # "_" /\ Head(args) \in ModuleVars
                    /\ HelpAsked) =>
                   (invoked = <<>> /\ stderr = [text |-> "doc", of |-> Head(args)])
            /\ \A i \in DOMAIN invoked : Head(invoked[i].f) # "_"

\* the runs the command line gives to run, <<NoValue>> when it gives none
RunsGiven == Bound("runs", 2, invoked[1].args, invoked[1].kwargs)
RunReturned ==
    /\ status = "returned"
    /\ invoked # <<>>
    /\ invoked[1].f = <<"run">>
OneVerboseRun ==
    work = <<[what |-> "simulation", verbose |-> TRUE,
              parameters |-> "optguess", runs |-> 1]>>
SampledFor(k) ==
    /\ Len(work) = 1
    /\ work[1].what = "sample"
    /\ ~work[1].verbose
    /\ work[1].runs = k

RECURSIVE ReachableFrom(_)
ReachableFrom(S) ==
    LET more == S \cup {get_target(c, a) :
                            c \in {x \in connections : x[1] \in S \/ x[2] \in S},
                            a \in S \cap NodeIds}
        next == {b \in more : b \in S \/ \E c \in connections :
                     \E a \in S : (c[1] = a /\ c[2] = b) \/ (c[2] = a /\ c[1] = b)}
    IN  IF next = S THEN S ELSE ReachableFrom(next)

\* C30: building the network ends; add_node is called at most once for a
\* node; at the end the nodes of the graph are the nodes that connections
\* lead to from the outlet, and every connection between two of them is an
\* edge of the graph.
C30_NetworkBuilt ==
    /\ <>(npc = "done")
    /\ [](/\ \A i \in DOMAIN visits : visits[i] <= 1
          /\ npc = "done" =>
                 /\ graph_nodes = ReachableFrom({Outlet})
                 /\ \A c \in connections :
                        (c[1] \in graph_nodes /\ c[2] \in graph_nodes) =>
                            {c[1], c[2]} \in graph_edges
                 /\ \A e \in graph_edges :
                        \E c \in connections : e = {c[1], c[2]})

\* C30 witness: the network of a project with a cycle through the outlet
\* and a node no connection leads to.
C30_Witness ==
    /\ npc = "done"
    /\ {{1, 2}, {2, 3}, {1, 3}} \subseteq graph_edges
    /\ \E i \in NodeIds : i \notin graph_nodes
    /\ \A i \in graph_nodes : visits[i] = 1

====
